---- MODULE Spec2Model ----
(***************************************************************************)
(* A model of the YouCompleteMe configuration template (src/template.py).  *)
(* Strings are sequences of one-character strings, so that prefix tests,   *)
(* slicing, joining and extension splitting are computed as Python does.   *)
(***************************************************************************)
EXTENDS Integers, Sequences, FiniteSets, TLC

VARIABLES
    fs,         \* the filesystem: [dirs, files], sets of absolute paths
    cfg,        \* the user-edited options of the template
    dbdisk,     \* what the compilation database on disk answers per file
    clang,      \* the include search list the compiler prints (or NoMatch)
    pc,         \* position in the module-level code (lines 258-273)
    flags,      \* module-level 'flags'
    compilation_database_folder,
    database,   \* module-level 'database' (None or a handle)
    system_includes,
    boot,       \* history: module state at the end of startup
    last,       \* history: the latest FlagsForFile call
    seen,       \* history: first result returned per filename
    guess,      \* result of the latest directory-guess call
    rw          \* input and results of MakeRelativePathsInFlagsAbsolute calls

vars == <<fs, cfg, dbdisk, clang, pc, flags, compilation_database_folder,
          database, system_includes, boot, last, seen, guess, rw>>

None == "None"

\* the outcome of a call that may raise OSError
Raised == [raised |-> TRUE, value |-> <<>>]
Returned(v) == [raised |-> FALSE, value |-> v]

---------------------------------------------------------------------------
(* Bounds of the model.                                                    *)
MaxFlags == 3
MaxLines == 2

---------------------------------------------------------------------------
(* Python string primitives.                                               *)

startswith(s, p) ==
    /\ Len(p) <= Len(s)
    /\ SubSeq(s, 1, Len(p)) = p

endswith(s, p) ==
    /\ Len(p) <= Len(s)
    /\ SubSeq(s, Len(s) - Len(p) + 1, Len(s)) = p

\* s[n:]
SliceFrom(s, n) == SubSeq(s, n + 1, Len(s))

\* s.rfind(c): 0-based index of the last c, -1 when absent
rfind(s, c) ==
    LET hits == {i \in 1..Len(s) : s[i] = c}
    IN  IF hits = {} THEN -1
        ELSE (CHOOSE i \in hits : \A j \in hits : j <= i) - 1

\* s.find(sub) >= 0
contains(s, sub) ==
    \E i \in 0..(Len(s) - Len(sub)) : SubSeq(s, i + 1, i + Len(sub)) = sub

UpperCase == <<"A","B","C","D","E","F","G","H","I","J","K","L","M",
               "N","O","P","Q","R","S","T","U","V","W","X","Y","Z">>
LowerCase == <<"a","b","c","d","e","f","g","h","i","j","k","l","m",
               "n","o","p","q","r","s","t","u","v","w","x","y","z">>

lower(s) ==
    [i \in 1..Len(s) |->
        IF \E k \in 1..26 : UpperCase[k] = s[i]
        THEN LowerCase[CHOOSE k \in 1..26 : UpperCase[k] = s[i]]
        ELSE s[i]]

Whitespace == {" ", "\t"}

RECURSIVE lstrip(_)
lstrip(s) ==
    IF s # <<>> /\ Head(s) \in Whitespace THEN lstrip(Tail(s)) ELSE s

RECURSIVE rstrip(_)
rstrip(s) ==
    IF s # <<>> /\ s[Len(s)] \in Whitespace
    THEN rstrip(SubSeq(s, 1, Len(s) - 1)) ELSE s

strip(s) == rstrip(lstrip(s))

---------------------------------------------------------------------------
(* posixpath                                                               *)

Sep == <<"/">>

\* os.path.join(a, b)
os_path_join_concat(a, b) ==
    IF a = <<>> \/ endswith(a, Sep) THEN a \o b ELSE a \o Sep \o b

os_path_join(a, b) ==
    IF startswith(b, Sep) THEN b
    ELSE IF a = <<>> \/ endswith(a, Sep) THEN a \o b
    ELSE a \o Sep \o b

\* os.path.splitext(p): the extension starts at the last dot of the last
\* component, unless that component has only leading dots before it
os_path_splitext(p) ==
    LET sepIndex == rfind(p, "/")
        dotIndex == rfind(p, ".")
    IN  IF dotIndex > sepIndex
           /\ \E k \in (sepIndex + 1)..(dotIndex - 1) : p[k + 1] # "."
        THEN <<SubSeq(p, 1, dotIndex), SliceFrom(p, dotIndex)>>
        ELSE <<p, <<>>>>

\* os.path.split(p): head without trailing separators, and the tail
os_path_split(p) ==
    LET i    == rfind(p, "/") + 1
        head == SubSeq(p, 1, i)
        tail == SliceFrom(p, i)
        RECURSIVE rs(_)
        rs(h) == IF h # <<>> /\ h[Len(h)] = "/" THEN rs(SubSeq(h, 1, Len(h) - 1))
                 ELSE h
    IN  <<IF head # <<>> /\ rs(head) # <<>> THEN rs(head) ELSE head, tail>>

os_path_dirname(p) == os_path_split(p)[1]
os_path_basename(p) == SliceFrom(p, rfind(p, "/") + 1)

---------------------------------------------------------------------------
(* Constant definitions of the template.                                   *)

SOURCE_EXTENSIONS ==
    << <<".","c","p","p">>, <<".","c","x","x">>, <<".","c","c">>,
       <<".","c">>, <<".","m">>, <<".","m","m">> >>

HEADER_EXTENSIONS ==
    << <<".","h">>, <<".","h","x","x">>, <<".","h","p","p">>, <<".","h","h">> >>

F_isystem == <<"-","i","s","y","s","t","e","m">>
F_I       == <<"-","I">>
F_iquote  == <<"-","i","q","u","o","t","e">>
F_sysroot == <<"-","-","s","y","s","r","o","o","t","=">>

path_flags == <<F_isystem, F_I, F_iquote, F_sysroot>>

Range(s) == {s[i] : i \in 1..Len(s)}

---------------------------------------------------------------------------
(* MakeRelativePathsInFlagsAbsolute                                        *)

\* The inner loop over path_flags for one flag: the first path flag the
\* flag equals or starts with decides, and the loop breaks there.
RECURSIVE ScanPathFlagsExactOnly(_, _, _, _)
ScanPathFlagsExactOnly(flag, new_flag, working_directory, i) ==
    IF i > Len(path_flags)
    THEN [new_flag |-> new_flag, make_next_absolute |-> FALSE]
    ELSE IF flag = path_flags[i]
    THEN [new_flag |-> new_flag, make_next_absolute |-> TRUE]
    ELSE ScanPathFlagsExactOnly(flag, new_flag, working_directory, i + 1)

RECURSIVE ScanPathFlags(_, _, _, _)
ScanPathFlags(flag, new_flag, working_directory, i) ==
    IF i > Len(path_flags)
    THEN [new_flag |-> new_flag, make_next_absolute |-> FALSE]
    ELSE IF flag = path_flags[i]
    THEN [new_flag |-> new_flag, make_next_absolute |-> TRUE]
    ELSE IF startswith(flag, path_flags[i])
    THEN [new_flag |-> path_flags[i] \o
                       os_path_join(working_directory,
                                    SliceFrom(flag, Len(path_flags[i]))),
          make_next_absolute |-> FALSE]
    ELSE ScanPathFlags(flag, new_flag, working_directory, i + 1)

\* One iteration of the outer loop: the flag to append (empty: nothing is
\* appended) and the lookahead bit for the next iteration.
RewriteFlagNoLookahead(flag, make_next_absolute, working_directory) ==
    ScanPathFlags(flag, flag, working_directory, 1)

RewriteFlag(flag, make_next_absolute, working_directory) ==
    ScanPathFlags(flag,
                  IF make_next_absolute /\ ~startswith(flag, Sep)
                  THEN os_path_join(working_directory, flag)
                  ELSE flag,
                  working_directory, 1)

RECURSIVE RewriteLoop(_, _, _, _, _)
RewriteLoop(fl, working_directory, i, make_next_absolute, new_flags) ==
    IF i > Len(fl) THEN new_flags
    ELSE LET r == RewriteFlag(fl[i], make_next_absolute, working_directory)
         IN  RewriteLoop(fl, working_directory, i + 1, r.make_next_absolute,
                         IF r.new_flag # <<>>
                         THEN Append(new_flags, r.new_flag)
                         ELSE new_flags)

MakeRelativePathsInFlagsAbsolute(fl, working_directory) ==
    IF working_directory = <<>> THEN fl
    ELSE RewriteLoop(fl, working_directory, 1, FALSE, <<>>)

\* What the list passed as 'flags' holds after the call: the function
\* appends to a fresh list and never assigns into its argument.
ArgumentAfterRewriteInPlace(fl, working_directory) ==
    MakeRelativePathsInFlagsAbsolute(fl, working_directory)

ArgumentAfterRewrite(fl, working_directory) == fl

---------------------------------------------------------------------------
(* The filesystem as the template sees it.                                 *)

\* p.split('/')
RECURSIVE SplitSep(_, _, _)
SplitSep(p, cur, acc) ==
    IF p = <<>> THEN Append(acc, cur)
    ELSE IF Head(p) = "/" THEN SplitSep(Tail(p), <<>>, Append(acc, cur))
    ELSE SplitSep(Tail(p), Append(cur, Head(p)), acc)

RECURSIVE JoinSep(_)
JoinSep(comps) ==
    IF comps = <<>> THEN <<>>
    ELSE IF Len(comps) = 1 THEN comps[1]
    ELSE comps[1] \o Sep \o JoinSep(Tail(comps))

RECURSIVE NormComps(_, _, _)
NormComps(comps, initial_slashes, new_comps) ==
    IF comps = <<>> THEN new_comps
    ELSE LET comp == Head(comps)
             DotDot == <<".", ".">>
         IN  IF comp = <<>> \/ comp = <<".">>
             THEN NormComps(Tail(comps), initial_slashes, new_comps)
             ELSE IF comp # DotDot
                     \/ (initial_slashes = 0 /\ new_comps = <<>>)
                     \/ (new_comps # <<>> /\ new_comps[Len(new_comps)] = DotDot)
             THEN NormComps(Tail(comps), initial_slashes, Append(new_comps, comp))
             ELSE IF new_comps # <<>>
             THEN NormComps(Tail(comps), initial_slashes,
                            SubSeq(new_comps, 1, Len(new_comps) - 1))
             ELSE NormComps(Tail(comps), initial_slashes, new_comps)

\* the path the kernel resolves p to (no symbolic links): os.path.normpath
os_path_normpath(p) ==
    IF p = <<>> THEN <<".">>
    ELSE LET initial_slashes ==
                 IF ~startswith(p, Sep) THEN 0
                 ELSE IF startswith(p, <<"/","/">>) /\ ~startswith(p, <<"/","/","/">>)
                 THEN 2 ELSE 1
             body == JoinSep(NormComps(SplitSep(p, <<>>, <<>>), initial_slashes, <<>>))
             path == IF initial_slashes = 0 THEN body
                     ELSE IF initial_slashes = 1 THEN Sep \o body
                     ELSE <<"/","/">> \o body
         IN  IF path = <<>> THEN <<".">> ELSE path

Nodes(fsys) == fsys.dirs \cup fsys.files

\* os.path.exists(p); every path the template tests is absolute
os_path_exists(fsys, p) ==
    /\ p # <<>>
    /\ os_path_normpath(p) \in Nodes(fsys)

\* the names os.listdir(d) returns
ListDir(fsys, d) ==
    {os_path_basename(n) : n \in {m \in Nodes(fsys) :
                                    m # d /\ os_path_dirname(m) = d}}

\* os.walk(top): one entry per directory at or below top, none when top is
\* not a directory; root_dir is top joined with the names below it
os_walk(fsys, top) ==
    {[root_dir |-> d,
      file_list |-> {os_path_basename(f) : f \in {g \in fsys.files :
                                                    os_path_dirname(g) = d}}] :
        d \in {e \in fsys.dirs : e = top \/ startswith(e, top \o Sep)}}

\* glob.glob(join(base, '..', '..', '*', name)): one match per entry of the
\* directory two levels up that is not hidden and holds name
GlobTwoUp(fsys, base, name) ==
    LET up  == os_path_join(os_path_join(base, <<".",".">>), <<".",".">>)
        dir == os_path_normpath(up)
    IN  {os_path_join(os_path_join(up, x), name) :
            x \in {y \in ListDir(fsys, dir) :
                     /\ ~startswith(y, <<".">>)
                     /\ os_path_exists(fsys, os_path_join(os_path_join(up, y), name))}}

---------------------------------------------------------------------------
(* The directory guessers.                                                 *)

N_build    == <<"b","u","i","l","d">>
N_include  == <<"i","n","c","l","u","d","e">>
N_includes == <<"i","n","c","l","u","d","e","s">>
N_src      == <<"s","r","c">>
N_source   == <<"s","o","u","r","c","e">>
N_lib      == <<"l","i","b">>
CompileCommands ==
    <<"c","o","m","p","i","l","e","_","c","o","m","m","a","n","d","s",
      ".","j","s","o","n">>

\* os.path.dirname(os.path.abspath(__file__))
DirectoryOfThisScript == <<"/","w","/","p">>

GuessBuildDirectoryFirstMatch(fsys) ==
    LET result == os_path_join(DirectoryOfThisScript, N_build)
        found  == GlobTwoUp(fsys, DirectoryOfThisScript, CompileCommands)
    IN  IF os_path_exists(fsys, result) THEN Returned(result)
        ELSE IF found = {} THEN Raised
        ELSE Returned(os_path_split(CHOOSE m \in found : TRUE)[1])

GuessBuildDirectory(fsys) ==
    LET result == os_path_join(DirectoryOfThisScript, N_build)
        found  == GlobTwoUp(fsys, DirectoryOfThisScript, CompileCommands)
    IN  IF os_path_exists(fsys, result) THEN Returned(result)
        ELSE IF found = {} THEN Raised
        ELSE IF Cardinality(found) # 1 THEN Raised
        ELSE Returned(os_path_split(CHOOSE m \in found : TRUE)[1])

RECURSIVE FirstExisting(_, _, _)
FirstExisting(fsys, guess_candidates, i) ==
    IF i > Len(guess_candidates) THEN Raised
    ELSE LET result == os_path_join(DirectoryOfThisScript, guess_candidates[i])
         IN  IF os_path_exists(fsys, result) THEN Returned(result)
             ELSE FirstExisting(fsys, guess_candidates, i + 1)

GuessSourceDirectory(fsys) ==
    FirstExisting(fsys,
                  <<N_src, N_source, N_lib,
                    os_path_basename(DirectoryOfThisScript)>>, 1)

\* include_extensions is a set; None is passed as the empty set, which the
\* code treats alike ('if include_extensions:')
TraverseByDepth(fsys, root, include_extensions) ==
    LET new_extensions == {lower(entry) : entry \in include_extensions}
        get_ext(f) == os_path_splitext(f)[2]
        subdir_extensions(file_list) ==
            {lower(get_ext(f)) : f \in {g \in file_list : get_ext(g) # <<>>}}
    IN  {e.root_dir : e \in {w \in os_walk(fsys, root) :
            /\ w.root_dir # root
            /\ \/ include_extensions = {}
               \/ subdir_extensions(w.file_list) \cap new_extensions # {}}}

\* every order a Python set may be iterated in
Orderings(S) ==
    {q \in [1..Cardinality(S) -> S] : \A i, j \in 1..Cardinality(S) :
                                         q[i] = q[j] => i = j}

FirstExternal(fsys) ==
    LET inc  == os_path_join(DirectoryOfThisScript, N_include)
        incs == os_path_join(DirectoryOfThisScript, N_includes)
    IN  IF os_path_exists(fsys, inc) THEN TraverseByDepth(fsys, inc, {})
        ELSE IF os_path_exists(fsys, incs) THEN TraverseByDepth(fsys, incs, {})
        ELSE {}

\* The lists GuessIncludeDirectory may return: the source-derived
\* directories, then the external ones, each group in set-iteration order.
GuessIncludeDirectory(fsys) ==
    LET guessed == GuessSourceDirectory(fsys)
        include_dir_set ==
            IF guessed.raised THEN {}
            ELSE TraverseByDepth(fsys,
                                 os_path_join(DirectoryOfThisScript,
                                              guessed.value),
                                 Range(HEADER_EXTENSIONS))
        external_include_dir_set == FirstExternal(fsys)
        AsFlags(q) == [i \in 1..Len(q) |-> F_I \o q[i]]
    IN  {AsFlags(a) \o AsFlags(b) :
            a \in Orderings(include_dir_set),
            b \in Orderings(external_include_dir_set)}

---------------------------------------------------------------------------
(* LoadSystemIncludes                                                      *)

FrameworkMarker ==
    <<"(","f","r","a","m","e","w","o","r","k"," ",
      "d","i","r","e","c","t","o","r","y",")">>

RECURSIVE IncludesFromLines(_, _, _)
IncludesFromLines(lines, i, includes) ==
    IF i > Len(lines) THEN includes
    ELSE LET q == strip(lines[i])
         IN  IncludesFromLines(lines, i + 1,
                 IF Len(q) > 0 /\ ~contains(q, FrameworkMarker)
                 THEN includes \o <<F_isystem, q>>
                 ELSE includes)

\* out.matched: the compiler output holds the search-list markers;
\* out.lines: the lines between them. Without the markers re.search
\* returns None and the call raises.
LoadSystemIncludes(out) ==
    IF ~out.matched THEN Raised
    ELSE Returned(IncludesFromLines(out.lines, 1, <<>>))

---------------------------------------------------------------------------
(* The compilation database and the per-file lookup.                       *)

EmptyRecord == [compiler_flags_ |-> <<>>, compiler_working_dir_ |-> <<>>]

NoDatabase == [present |-> FALSE, records |-> <<>>]

\* database.GetCompilationInfoForFile(f): the record of f, or the empty
\* record for a file the database does not know
DatabaseRecord(db, f) ==
    IF f \in DOMAIN db.records THEN db.records[f] ELSE EmptyRecord

NoInfo(queried) ==
    [none |-> TRUE, compiler_flags_ |-> <<>>, compiler_working_dir_ |-> <<>>,
     queried |-> queried]

Info(record, queried) ==
    [none |-> FALSE, compiler_flags_ |-> record.compiler_flags_,
     compiler_working_dir_ |-> record.compiler_working_dir_,
     queried |-> queried]

IsHeaderFile(filename) ==
    LET extension == lower(os_path_splitext(filename)[2])
    IN  extension \in Range(HEADER_EXTENSIONS)

\* the loop over SOURCE_EXTENSIONS; queried lists the files the database
\* was asked about so far
RECURSIVE TrySourceExtensionsUnchecked(_, _, _, _, _)
TrySourceExtensionsUnchecked(fsys, db, basename, i, queried) ==
    IF i > Len(SOURCE_EXTENSIONS) THEN NoInfo(queried)
    ELSE LET replacement_file == basename \o SOURCE_EXTENSIONS[i]
             compilation_info == DatabaseRecord(db, replacement_file)
             asked == Append(queried, replacement_file)
         IN  IF compilation_info.compiler_flags_ # <<>>
             THEN Info(compilation_info, asked)
             ELSE TrySourceExtensionsUnchecked(fsys, db, basename, i + 1, asked)

RECURSIVE TrySourceExtensions(_, _, _, _, _)
TrySourceExtensions(fsys, db, basename, i, queried) ==
    IF i > Len(SOURCE_EXTENSIONS) THEN NoInfo(queried)
    ELSE LET replacement_file == basename \o SOURCE_EXTENSIONS[i]
         IN  IF os_path_exists(fsys, replacement_file)
             THEN LET compilation_info == DatabaseRecord(db, replacement_file)
                      asked == Append(queried, replacement_file)
                  IN  IF compilation_info.compiler_flags_ # <<>>
                      THEN Info(compilation_info, asked)
                      ELSE TrySourceExtensions(fsys, db, basename, i + 1, asked)
             ELSE TrySourceExtensions(fsys, db, basename, i + 1, queried)

GetCompilationInfoForFile(fsys, db, filename) ==
    IF ~db.present THEN NoInfo(<<>>)
    ELSE IF IsHeaderFile(filename)
    THEN TrySourceExtensions(fsys, db, os_path_splitext(filename)[1], 1, <<>>)
    ELSE Info(DatabaseRecord(db, filename), <<filename>>)

---------------------------------------------------------------------------
(* FlagsForFile                                                            *)

NoResult == [none |-> TRUE, flags |-> <<>>, do_cache |-> FALSE]

Result(final_flags) == [none |-> FALSE, flags |-> final_flags, do_cache |-> TRUE]

\* flags = flags + system_includes
WithSystemIncludesTwice(fl, includes) == fl \o includes \o includes

WithSystemIncludes(fl, includes) == fl \o includes

FlagsForFileResult(fsys, db, fl, includes, filename) ==
    IF db.present
    THEN LET compilation_info == GetCompilationInfoForFile(fsys, db, filename)
         IN  IF compilation_info.none THEN NoResult
             ELSE Result(MakeRelativePathsInFlagsAbsolute(
                             compilation_info.compiler_flags_,
                             compilation_info.compiler_working_dir_)
                         \o includes)
    ELSE Result(MakeRelativePathsInFlagsAbsolute(fl, DirectoryOfThisScript))

---------------------------------------------------------------------------
(* Filesystems the guessers are run on: the anchor /w/p always exists, and *)
(* every other node is present or absent, a child only under its parent.   *)

Root == Sep
D_w  == <<"/","w">>

Under(d, name) == os_path_join(d, name)

Tree(dirs, files) == [dirs |-> dirs, files |-> files]

BaseTree == Tree({Root, D_w, DirectoryOfThisScript}, {})

D_src == Under(DirectoryOfThisScript, N_src)
D_sub == Under(D_src, <<"d">>)
F_hpp == Under(D_src, <<"a",".","h","p","p">>)
F_H   == Under(D_sub, <<"b",".","H">>)
F_txt == Under(D_sub, <<"n",".","t","x","t">>)

SrcOptions ==
    {Tree({}, {})} \cup
    {Tree({D_src} \cup sub.dirs, top \cup sub.files) :
        top \in {{}, {F_hpp}},
        sub \in {Tree({}, {}), Tree({D_sub}, {}), Tree({D_sub}, {F_H}),
                 Tree({D_sub}, {F_txt})}}

\* 'source' as a plain file: it exists, but is no directory to walk
SourceOptions ==
    {Tree({}, {}), Tree({}, {Under(DirectoryOfThisScript, N_source)})}

D_include  == Under(DirectoryOfThisScript, N_include)
D_includes == Under(DirectoryOfThisScript, N_includes)

IncludeOptions ==
    {Tree({}, {}), Tree({D_include}, {}),
     Tree({D_include, Under(D_include, <<"s">>)}, {}),
     Tree({D_include, Under(D_include, <<"s">>), Under(D_include, <<"u">>)}, {})}

IncludesOptions ==
    {Tree({}, {}), Tree({D_includes, Under(D_includes, <<"t">>)}, {})}

BuildOptions ==
    {Tree({}, {}), Tree({Under(DirectoryOfThisScript, N_build)}, {})}

\* a directory next to /w, with or without a compile_commands.json
Sibling(name) ==
    {Tree({}, {}), Tree({Under(Root, name)}, {}),
     Tree({Under(Root, name)}, {Under(Under(Root, name), CompileCommands)})}

ParentOptions == {Tree({}, {}), Tree({}, {Under(D_w, CompileCommands)})}

Merge(a, b) == Tree(a.dirs \cup b.dirs, a.files \cup b.files)

AnchorTrees ==
    {Merge(Merge(Merge(a, b), Merge(c, d)), BaseTree) :
        a \in SrcOptions, b \in SourceOptions,
        c \in IncludeOptions, d \in IncludesOptions}

BuildTrees ==
    {Merge(Merge(Merge(a, b), Merge(c, d)), e) :
        a \in BuildOptions, b \in Sibling(<<"b">>), c \in Sibling(<<"c">>),
        d \in Sibling(<<".","h">>), e \in ParentOptions}

GuessTrees ==
    {Merge(a, b) : a \in AnchorTrees, b \in {Tree({}, {})}} \cup
    {Merge(BaseTree, Merge(a, b)) : a \in SrcOptions, b \in BuildTrees}

NoGuess == [call |-> "none", raised |-> FALSE, value |-> <<>>]

NoRewrite == [stage |-> "off", flags |-> <<>>, working_directory |-> <<>>,
              once |-> <<>>, twice |-> <<>>]

InitGuess ==
    /\ fs \in GuessTrees
    /\ cfg = None
    /\ dbdisk = None
    /\ clang = None
    /\ pc = "guess"
    /\ flags = <<>>
    /\ compilation_database_folder = <<>>
    /\ database = None
    /\ system_includes = <<>>
    /\ boot = None
    /\ last = None
    /\ seen = <<>>
    /\ guess = NoGuess
    /\ rw = NoRewrite

CallGuessSourceDirectory ==
    /\ pc = "guess"
    /\ guess' = [call |-> "GuessSourceDirectory",
                 raised |-> GuessSourceDirectory(fs).raised,
                 value |-> GuessSourceDirectory(fs).value]
    /\ UNCHANGED <<fs, cfg, dbdisk, clang, pc, flags,
                   compilation_database_folder, database, system_includes,
                   boot, last, seen, rw>>

CallGuessIncludeDirectory ==
    /\ pc = "guess"
    /\ \E result \in GuessIncludeDirectory(fs) :
          guess' = [call |-> "GuessIncludeDirectory", raised |-> FALSE,
                    value |-> result]
    /\ UNCHANGED <<fs, cfg, dbdisk, clang, pc, flags,
                   compilation_database_folder, database, system_includes,
                   boot, last, seen, rw>>

CallGuessBuildDirectory ==
    /\ pc = "guess"
    /\ guess' = [call |-> "GuessBuildDirectory",
                 raised |-> GuessBuildDirectory(fs).raised,
                 value |-> GuessBuildDirectory(fs).value]
    /\ UNCHANGED <<fs, cfg, dbdisk, clang, pc, flags,
                   compilation_database_folder, database, system_includes,
                   boot, last, seen, rw>>

NextGuess ==
    \/ CallGuessSourceDirectory
    \/ CallGuessIncludeDirectory
    \/ CallGuessBuildDirectory

SpecGuess == InitGuess /\ [][NextGuess]_vars

---------------------------------------------------------------------------
(* Properties of the guessers (SpecGuess).                                 *)

IsHeaderName(f) ==
    \E i \in 1..Len(HEADER_EXTENSIONS) :
        lower(os_path_splitext(f)[2]) = HEADER_EXTENSIONS[i]

NoHeaderFiles == \A f \in fs.files : ~IsHeaderName(f)

HasChildren(d) == \E n \in Nodes(fs) : n # d /\ os_path_dirname(n) = d

\* the include folder GuessIncludeDirectory settles on, if any
ExternalFolder ==
    IF D_include \in Nodes(fs) THEN {D_include}
    ELSE IF D_includes \in Nodes(fs) THEN {D_includes}
    ELSE {}

\* C5: when the anchor holds include (or, failing that, includes), the
\* guess lists that folder itself as an -I flag; with the folder empty and
\* no header file anywhere the guess is exactly ["-I<anchor>/include"].
C5_IncludeFolderListed ==
    guess.call = "GuessIncludeDirectory" =>
        \A ext \in ExternalFolder :
            /\ (F_I \o ext) \in Range(guess.value)
            /\ (~HasChildren(ext) /\ NoHeaderFiles) =>
                   guess.value = << F_I \o ext >>

\* C6: with src/ directly holding a.hpp, no subdirectory of src/ and no
\* include or includes folder, the guess is exactly ["-I<anchor>/src"].
C6_SourceDirectoryListed ==
    (/\ guess.call = "GuessIncludeDirectory"
     /\ D_src \in fs.dirs
     /\ F_hpp \in fs.files
     /\ D_sub \notin fs.dirs
     /\ ExternalFolder = {})
    => guess.value = << F_I \o D_src >>

\* directories two levels above the anchor that glob's '*' matches and
\* that hold a compile_commands.json
BuildCandidates ==
    {d \in fs.dirs :
        /\ d # Root
        /\ os_path_dirname(d) = Root
        /\ os_path_basename(d)[1] # "."
        /\ Under(d, CompileCommands) \in Nodes(fs)}

\* C7: GuessBuildDirectory returns <anchor>/build when that exists, however
\* many compile_commands.json candidates there are; otherwise the parent
\* directory of the single match of <anchor>/../../*/compile_commands.json;
\* otherwise (no match, or two or more) it raises OSError.
C7_BuildDirectoryGuess ==
    guess.call = "GuessBuildDirectory" =>
        IF Under(DirectoryOfThisScript, N_build) \in Nodes(fs)
        THEN guess = [call |-> "GuessBuildDirectory", raised |-> FALSE,
                      value |-> Under(DirectoryOfThisScript, N_build)]
        ELSE IF Cardinality(BuildCandidates) = 1
        THEN /\ ~guess.raised
             /\ os_path_normpath(guess.value) \in BuildCandidates
        ELSE guess.raised

C7_Witness ==
    /\ guess.call = "GuessBuildDirectory"
    /\ Under(DirectoryOfThisScript, N_build) \notin Nodes(fs)
    /\ BuildCandidates = {Under(Root, <<"c">>)}
    /\ Under(Under(Root, <<".","h">>), CompileCommands) \in fs.files
    /\ ~guess.raised
    /\ guess.value =
           <<"/","w","/","p","/",".",".","/",".",".","/","c">>

---------------------------------------------------------------------------
(* Inputs of the rewrite calls: tokens, flag lists and working             *)
(* directories.                                                            *)

PathFlagSet == Range(path_flags)

Wall == <<"-","W","a","l","l">>

\* path values: empty, relative, absolute
RelPaths == {<<"a">>}
AbsPaths == {<<"/","a">>}
PathTokens == {<<>>} \cup RelPaths \cup AbsPaths

Prefixed == {f \o p : f \in PathFlagSet, p \in RelPaths \cup AbsPaths}

Tokens == PathFlagSet \cup PathTokens \cup Prefixed \cup {Wall}

WorkingDirs == {<<>>, <<"/","w">>, <<"/","w","/">>, <<"w">>}

SeqsUpTo(S, n) == UNION {[1..k -> S] : k \in 0..n}

FlagLists == SeqsUpTo(Tokens, MaxFlags)

InitRewrite ==
    /\ fs = [dirs |-> {}, files |-> {}]
    /\ cfg = None
    /\ dbdisk = None
    /\ clang = None
    /\ pc = "rewrite"
    /\ flags = <<>>
    /\ compilation_database_folder = <<>>
    /\ database = None
    /\ system_includes = <<>>
    /\ boot = None
    /\ last = None
    /\ seen = <<>>
    /\ guess = NoGuess
    /\ \E fl \in FlagLists, wd \in WorkingDirs :
          rw = [stage |-> "input", flags |-> fl, working_directory |-> wd,
                once |-> <<>>, twice |-> <<>>]

\* MakeRelativePathsInFlagsAbsolute(flags, working_directory)
RewriteOnce ==
    /\ rw.stage = "input"
    /\ rw' = [rw EXCEPT !.stage = "once",
                 !.once = MakeRelativePathsInFlagsAbsolute(rw.flags,
                                                            rw.working_directory)]
    /\ UNCHANGED <<fs, cfg, dbdisk, clang, pc, flags,
                   compilation_database_folder, database, system_includes,
                   boot, last, seen, guess>>

\* the same call on the list the first call returned
RewriteTwice ==
    /\ rw.stage = "once"
    /\ rw' = [rw EXCEPT !.stage = "twice",
                 !.twice = MakeRelativePathsInFlagsAbsolute(rw.once,
                                                             rw.working_directory)]
    /\ UNCHANGED <<fs, cfg, dbdisk, clang, pc, flags,
                   compilation_database_folder, database, system_includes,
                   boot, last, seen, guess>>

NextRewrite == RewriteOnce \/ RewriteTwice

SpecRewrite == InitRewrite /\ [][NextRewrite]_vars

---------------------------------------------------------------------------
(* Properties of the rewrite (SpecRewrite).                                *)

\* t is a path flag immediately followed by at least one more character
ProperlyPrefixed(t) == \E f \in PathFlagSet : startswith(t, f) /\ t # f

\* t is a prefixed token whose path part is absolute
PrefixedAbsolute(t) ==
    \E f \in PathFlagSet : startswith(t, f \o Sep)

\* position i of the input holds an already-absolute path
AlreadyAbsoluteAt(fl, i) ==
    \/ PrefixedAbsolute(fl[i])
    \/ /\ startswith(fl[i], Sep)
       /\ i > 1
       /\ fl[i - 1] \in PathFlagSet

AbsoluteUnchanged ==
    rw.stage \in {"once", "twice"} =>
        \A i \in 1..Len(rw.flags) :
            AlreadyAbsoluteAt(rw.flags, i) =>
                /\ rw.flags[i] \in Range(rw.once)
                /\ Len(rw.once) = Len(rw.flags) => rw.once[i] = rw.flags[i]

\* C8 as stated: already-absolute paths are unchanged for every working
\* directory, and rewriting twice gives the same list as rewriting once.
C8_Original ==
    /\ AbsoluteUnchanged
    /\ rw.stage = "twice" => rw.twice = rw.once

\* C8 (amended): already-absolute paths (a prefixed token whose suffix
\* begins with '/', a token beginning with '/' after an exact path flag) are
\* unchanged for every working directory; rewriting twice gives the same
\* list as rewriting once when the working directory is empty or begins
\* with '/'.
C8_AbsoluteUnchangedIdempotent ==
    /\ AbsoluteUnchanged
    /\ (rw.stage = "twice"
        /\ (rw.working_directory = <<>> \/ startswith(rw.working_directory, Sep)))
       => rw.twice = rw.once

C8_Witness ==
    /\ rw.stage = "twice"
    /\ rw.working_directory = <<"/","w">>
    /\ rw.flags = <<F_I, <<"/","a">>, F_sysroot \o <<"/","a">> >>
    /\ rw.once = rw.flags
    /\ rw.twice = rw.flags

\* join(W, p) for a relative p, written out
JoinedUnder(W, p) == IF endswith(W, Sep) THEN W \o p ELSE W \o Sep \o p

TwoTokenForm(F, p) ==
    rw.flags = <<F, p>> => rw.once = <<F, JoinedUnder(rw.working_directory, p)>>

SingleTokenForm(F, p) ==
    rw.flags = <<F \o p>> =>
        rw.once = <<F \o JoinedUnder(rw.working_directory, p)>>

\* C10 as stated, for the non-empty tokens it covers: for every non-empty
\* W and every non-empty token p not beginning with '/', [F, p] becomes
\* [F, join(W, p)] and [F+p] becomes [F+join(W, p)].
C10_Original ==
    (rw.stage = "once" /\ rw.working_directory # <<>>) =>
        \A F \in PathFlagSet, p \in Tokens \ {<<>>} :
            ~startswith(p, Sep) => TwoTokenForm(F, p) /\ SingleTokenForm(F, p)

\* C10 (amended): for every non-empty W and every token p not beginning
\* with '/', [F, p] becomes [F, join(W, p)] unless p is a path flag followed
\* by more characters, and [F+p] becomes [F+join(W, p)] unless p is empty.
C10_RelativeRewritten ==
    (rw.stage = "once" /\ rw.working_directory # <<>>) =>
        \A F \in PathFlagSet, p \in Tokens :
            ~startswith(p, Sep) =>
                /\ ~ProperlyPrefixed(p) => TwoTokenForm(F, p)
                /\ p # <<>> => SingleTokenForm(F, p)

C10_Witness ==
    /\ rw.stage = "once"
    /\ rw.working_directory = <<"/","w">>
    /\ \/ /\ rw.flags = <<F_I, <<"a">> >>
          /\ rw.once = <<F_I, <<"/","w","/","a">> >>
       \/ /\ rw.flags = <<F_sysroot \o <<"a">> >>
          /\ rw.once = <<F_sysroot \o <<"/","w","/","a">> >>

---------------------------------------------------------------------------
(* The template as a whole: module-level startup, then FlagsForFile calls. *)

\* files the completion engine asks about, and the sources beside them
F_h   == Under(D_w, <<"f",".","h">>)
F_hh  == Under(D_w, <<"f",".","H">>)
F_cpp == Under(D_w, <<"f",".","c","p","p">>)
F_cc  == Under(D_w, <<"f",".","c","c">>)
F_m   == Under(D_w, <<"f",".","m">>)
G_c   == Under(D_w, <<"g",".","c">>)

Requested == {F_h, F_hh, F_cpp}

D_b == Under(Root, <<"b">>)

Rel == <<"a">>

Record(fl, wd) == [compiler_flags_ |-> fl, compiler_working_dir_ |-> wd]

\* flag lists a database record may carry
DbFlagsA == <<F_I, Rel, F_iquote \o Rel, Wall>>
DbFlagsB == <<F_sysroot \o Rel, F_I, F_I \o Rel>>
DbFlagsC == <<Wall, F_isystem>>

\* what the compiler prints between the search-list markers
UsrLine       == <<" ", "/", "u">>
FrameworkLine == <<" ", "/", "s", " ">> \o FrameworkMarker
BlankLine     == <<>>

ClangLines == {UsrLine, FrameworkLine, BlankLine}

ClangOutputs ==
    {[matched |-> FALSE, lines |-> <<>>]} \cup
    {[matched |-> TRUE, lines |-> l] : l \in SeqsUpTo(ClangLines, MaxLines)}

StaticFlagLists == {<<>>, <<Wall>>, <<F_I, Rel, F_I \o Rel>>}

Config(gb, gi, fl, folder) ==
    [GUESS_BUILD_DIRECTORY |-> gb, GUESS_INCLUDE_PATH |-> gi,
     flags |-> fl, compilation_database_folder |-> folder]

ProjectTrees ==
    {BaseTree,
     Merge(BaseTree, Tree({D_src, D_include}, {F_hpp})),
     Merge(BaseTree, Tree({D_src, D_sub, D_include, Under(D_include, <<"s">>),
                           Under(D_include, <<"u">>)}, {F_H, F_cpp})),
     Merge(BaseTree, Tree({Under(DirectoryOfThisScript, N_build)}, {F_cpp})),
     Merge(BaseTree, Tree({Under(Root, <<"c">>)},
                          {Under(Under(Root, <<"c">>), CompileCommands), G_c}))}

NoCall == [called |-> FALSE, filename |-> <<>>, repeat |-> FALSE,
           info |-> NoInfo(<<>>), result |-> NoResult]

NoBoot == [flags |-> <<>>, system_includes |-> <<>>, database |-> NoDatabase]

\* the state in which the module-level statements start running
Loaded ==
    /\ pc = "load"
    /\ flags = cfg.flags
    /\ compilation_database_folder = cfg.compilation_database_folder
    /\ database = NoDatabase
    /\ system_includes = <<>>
    /\ boot = NoBoot
    /\ last = NoCall
    /\ seen = <<>>
    /\ guess = NoGuess
    /\ rw = NoRewrite

\* a project configured through the options, with a small database
InitProject ==
    /\ fs \in ProjectTrees
    /\ cfg \in {Config(gb, gi, fl, <<>>) :
                  gb \in BOOLEAN, gi \in BOOLEAN, fl \in StaticFlagLists}
    /\ dbdisk = (F_cpp :> Record(DbFlagsA, D_b))
    /\ clang \in ClangOutputs
    /\ Loaded

\* a project with compilation_database_folder set to an existing folder
InitDatabase ==
    /\ \E present \in SUBSET {F_cpp, F_cc, F_m} :
          fs = Merge(BaseTree, Tree({D_b}, present \cup {F_h, F_hh, G_c}))
    /\ cfg = Config(FALSE, FALSE, <<Wall>>, D_b)
    /\ \E r1 \in {EmptyRecord, Record(DbFlagsA, D_b), Record(DbFlagsA, <<>>)},
          r2 \in {EmptyRecord, Record(DbFlagsB, D_b), Record(DbFlagsB, <<"b">>)},
          r3 \in {EmptyRecord, Record(DbFlagsC, D_b)},
          r5 \in {EmptyRecord, Record(DbFlagsC, D_b)} :
          dbdisk = (F_cpp :> r1) @@ (F_cc :> r2) @@ (F_m :> r3) @@ (F_h :> r5)
    /\ clang \in {[matched |-> TRUE, lines |-> <<UsrLine>>],
                  [matched |-> TRUE, lines |-> <<>>]}
    /\ Loaded

Init == InitProject \/ InitDatabase

\* if GUESS_INCLUDE_PATH: flags.extend(GuessIncludeDirectory())
StartupGuessInclude ==
    /\ pc = "load"
    /\ pc' = "build"
    /\ IF cfg.GUESS_INCLUDE_PATH
       THEN \E guessed \in GuessIncludeDirectory(fs) : flags' = flags \o guessed
       ELSE flags' = flags
    /\ UNCHANGED <<fs, cfg, dbdisk, clang, compilation_database_folder,
                   database, system_includes, boot, last, seen, guess, rw>>

\* the folder after 'if GUESS_BUILD_DIRECTORY: try ... except OSError'
FolderAfterGuess(fsys, guess_build, folder) ==
    IF guess_build
    THEN IF GuessBuildDirectory(fsys).raised THEN <<>>
         ELSE GuessBuildDirectory(fsys).value
    ELSE folder

\* ... and the database opened when that folder exists
StartupDatabase ==
    /\ pc = "build"
    /\ pc' = "probe"
    /\ compilation_database_folder' =
           FolderAfterGuess(fs, cfg.GUESS_BUILD_DIRECTORY,
                            compilation_database_folder)
    /\ database' = IF os_path_exists(fs, compilation_database_folder')
                   THEN [present |-> TRUE, records |-> dbdisk]
                   ELSE NoDatabase
    /\ UNCHANGED <<fs, cfg, dbdisk, clang, flags, system_includes,
                   boot, last, seen, guess, rw>>

\* system_includes = LoadSystemIncludes(); flags = flags + system_includes
StartupSystemIncludes ==
    /\ pc = "probe"
    /\ LET loaded == LoadSystemIncludes(clang)
       IN  IF loaded.raised
           THEN /\ pc' = "failed"
                /\ UNCHANGED <<flags, system_includes, boot>>
           ELSE /\ pc' = "ready"
                /\ system_includes' = loaded.value
                /\ flags' = WithSystemIncludes(flags, loaded.value)
                /\ boot' = [flags |-> flags', system_includes |-> loaded.value,
                            database |-> database]
    /\ UNCHANGED <<fs, cfg, dbdisk, clang, compilation_database_folder,
                   database, last, seen, guess, rw>>

FlagsForFile(filename) ==
    /\ pc = "ready"
    /\ LET result == FlagsForFileResult(fs, database, flags, system_includes,
                                        filename)
       IN  /\ last' = [called |-> TRUE, filename |-> filename,
                       repeat |-> filename \in DOMAIN seen,
                       info |-> GetCompilationInfoForFile(fs, database, filename),
                       result |-> result]
           /\ seen' = IF filename \in DOMAIN seen THEN seen
                      ELSE seen @@ (filename :> result)
    /\ flags' = IF database.present THEN flags
                ELSE ArgumentAfterRewrite(flags, DirectoryOfThisScript)
    /\ UNCHANGED <<fs, cfg, dbdisk, clang, pc, compilation_database_folder,
                   database, system_includes, boot, guess, rw>>

Next ==
    \/ StartupGuessInclude
    \/ StartupDatabase
    \/ StartupSystemIncludes
    \/ \E filename \in Requested : FlagsForFile(filename)

Spec == Init /\ [][Next]_vars

---------------------------------------------------------------------------
(* Properties of the database lookup (Spec).                               *)

\* the order in which the claim says the source extensions are tried
ClaimedOrder ==
    << <<".","c","p","p">>, <<".","c","x","x">>, <<".","c","c">>,
       <<".","c">>, <<".","m">>, <<".","m","m">> >>

Stem == Under(D_w, <<"f">>)

Substitute(i) == Stem \o ClaimedOrder[i]

OnDiskRecord(f) == IF f \in DOMAIN dbdisk THEN dbdisk[f] ELSE EmptyRecord

Qualifies(i) ==
    /\ Substitute(i) \in Nodes(fs)
    /\ OnDiskRecord(Substitute(i)).compiler_flags_ # <<>>

Answered == pc = "ready" /\ last.called

HeaderLookup ==
    /\ Answered
    /\ database.present
    /\ last.filename \in {F_h, F_hh}

\* C1: with a database, the lookup for a header never asks the database
\* about the header itself; it returns the record of the first of .cpp,
\* .cxx, .cc, .c, .m, .mm whose substituted path exists on disk and has a
\* non-empty flag list, asks about no later one, and returns null when no
\* substitute qualifies.
C1_HeaderSubstitution ==
    HeaderLookup =>
        /\ last.filename \notin Range(last.info.queried)
        /\ \A q \in Range(last.info.queried) :
               \E i \in 1..6 : q = Substitute(i) /\ q \in Nodes(fs)
        /\ IF \E i \in 1..6 : Qualifies(i)
           THEN LET first == CHOOSE i \in 1..6 :
                                 Qualifies(i) /\ \A j \in 1..(i - 1) : ~Qualifies(j)
                    record == OnDiskRecord(Substitute(first))
                IN  /\ ~last.info.none
                    /\ last.info.compiler_flags_ = record.compiler_flags_
                    /\ last.info.compiler_working_dir_ =
                           record.compiler_working_dir_
                    /\ last.info.queried[Len(last.info.queried)] =
                           Substitute(first)
                    /\ \A j \in (first + 1)..6 :
                           Substitute(j) \notin Range(last.info.queried)
           ELSE last.info.none /\ last.result.none

C1_Witness ==
    /\ HeaderLookup
    /\ last.filename = F_h
    /\ {F_cpp, F_cc} \subseteq fs.files
    /\ OnDiskRecord(F_cpp) = Record(DbFlagsA, D_b)
    /\ OnDiskRecord(F_cc) = Record(DbFlagsB, D_b)
    /\ last.info.queried = <<F_cpp>>
    /\ last.info.compiler_flags_ = DbFlagsA

NoEntry(filename) ==
    IF filename \in {F_h, F_hh} THEN \A i \in 1..6 : ~Qualifies(i)
    ELSE OnDiskRecord(filename) = EmptyRecord

\* C2: with a database, whenever the database has no entry for the
\* requested file (an unknown source file, or a header without a
\* qualifying substitute), FlagsForFile returns null.
C2_NoEntryGivesNull ==
    (Answered /\ database.present /\ NoEntry(last.filename)) =>
        last.result.none

---------------------------------------------------------------------------
(* Properties of the assembled flag list (Spec).                           *)

AbsoluteSuffixes(L) ==
    \A i \in 1..Len(L) : \A f \in PathFlagSet :
        (startswith(L[i], f) /\ L[i] # f) =>
            startswith(SliceFrom(L[i], Len(f)), Sep)

Normalized(L) ==
    /\ AbsoluteSuffixes(L)
    /\ \A i \in 2..Len(L) : L[i - 1] \in PathFlagSet => startswith(L[i], Sep)

\* C3 as stated: every non-null result is absolute-path-normalized: each
\* token after an exact -isystem, -I, -iquote or --sysroot= token, and the
\* suffix of each token starting with one of them, begins with '/'.
C3_Original ==
    (Answered /\ ~last.result.none) => Normalized(last.result.flags)

WorkingDirectoryUsed ==
    IF database.present THEN last.info.compiler_working_dir_
    ELSE DirectoryOfThisScript

\* the part of the result the rewrite produced
Rewritten ==
    IF database.present
    THEN SubSeq(last.result.flags, 1,
                Len(last.result.flags) - Len(system_includes))
    ELSE last.result.flags

\* C3 (amended): in every non-null result whose working directory begins
\* with '/' (the anchor, or an absolute directory reported by the
\* database), the rewritten part of the flag list (all of it without a
\* database, the record's flags before the appended system includes with
\* one) is normalized: the suffix of each prefixed token begins with '/',
\* and each token after an exact path flag begins with '/' or is such a
\* prefixed token. With an empty working directory the record's flags are
\* returned as they are.
C3_RewrittenPartNormalized ==
    (Answered /\ ~last.result.none) =>
        /\ database.present =>
               last.result.flags = Rewritten \o system_includes
        /\ startswith(WorkingDirectoryUsed, Sep) =>
               /\ AbsoluteSuffixes(Rewritten)
               /\ \A i \in 2..Len(Rewritten) :
                      Rewritten[i - 1] \in PathFlagSet =>
                          \/ startswith(Rewritten[i], Sep)
                          \/ PrefixedAbsolute(Rewritten[i])
        /\ WorkingDirectoryUsed = <<>> =>
               Rewritten = last.info.compiler_flags_

C3_Witness ==
    /\ Answered
    /\ database.present
    /\ last.info.compiler_flags_ = DbFlagsA
    /\ last.info.compiler_working_dir_ = D_b
    /\ system_includes = <<F_isystem, <<"/","u">> >>
    /\ last.result.flags =
           <<F_I, <<"/","b","/","a">>, F_iquote \o <<"/","b","/","a">>, Wall,
             F_isystem, <<"/","u">> >>

GuessedFlagLists ==
    IF cfg.GUESS_INCLUDE_PATH THEN GuessIncludeDirectory(fs) ELSE {<<>>}

\* C4: without a database, FlagsForFile returns for every filename a
\* non-null result whose flags are the static flags, then the guessed
\* include flags (only with GUESS_INCLUDE_PATH), then the system includes
\* once, rewritten against the anchor; static [-Wall] and system includes
\* [-isystem, /u] with nothing guessed give [-Wall, -isystem, /u].
C4_FallbackAssembly ==
    (Answered /\ ~database.present) =>
        /\ ~last.result.none
        /\ \E guessed \in GuessedFlagLists :
               last.result.flags =
                   MakeRelativePathsInFlagsAbsolute(
                       cfg.flags \o guessed \o system_includes,
                       DirectoryOfThisScript)
        /\ (/\ cfg.flags = <<Wall>>
            /\ system_includes = <<F_isystem, <<"/","u">> >>
            /\ GuessedFlagLists = {<<>>})
           => last.result.flags = <<Wall, F_isystem, <<"/","u">> >>

C4_Witness ==
    /\ Answered
    /\ ~database.present
    /\ cfg.flags = <<Wall>>
    /\ cfg.GUESS_INCLUDE_PATH
    /\ GuessedFlagLists = {<<>>}
    /\ last.filename = F_cpp
    /\ last.result = Result(<<Wall, F_isystem, <<"/","u">> >>)

\* C9: FlagsForFile calls leave the module-level flag list, the memoized
\* system includes and the database as they were at the end of startup,
\* and a call returns what the first call with that filename returned.
C9_CallsAreReadOnly ==
    pc = "ready" =>
        /\ flags = boot.flags
        /\ system_includes = boot.system_includes
        /\ database = boot.database
        /\ last.called => last.result = seen[last.filename]

C9_Witness ==
    /\ Answered
    /\ last.repeat
    /\ DOMAIN seen = Requested
    /\ ~database.present
    /\ cfg.flags = <<F_I, Rel, F_I \o Rel>>
    /\ last.result.flags # flags
    /\ flags = boot.flags

====
